---------------------------- MODULE Spec2Model ----------------------------
(***************************************************************************)
(* The request handlers of src/main.rs: an axum router with seven POST     *)
(* routes, each an async function that parses the text fields of its JSON   *)
(* request, calls one builder or one signature operation of the SDK, and    *)
(* wraps the result in SuccessResponse or ErrorResponse.                    *)
(*                                                                          *)
(* Texts are sequences of one-character strings, byte strings are           *)
(* sequences of 0..255, and a u64 is its eight little-endian bytes.  The    *)
(* base-58 and base-64 codecs are computed digit by digit.  The ed25519     *)
(* scheme of the SDK is a Schnorr signature over a small prime-order group  *)
(* with ed25519's equations and ed25519's wire widths (32-byte keys,        *)
(* 64-byte signatures).                                                     *)
(***************************************************************************)
EXTENDS Integers, Sequences, FiniteSets, TLC

(***************************************************************************)
(* Results of the fallible SDK calls: Result<T, E> without the error value, *)
(* which every call site discards with map_err(|_| ...).                    *)
(***************************************************************************)
Ok(v) == [ok |-> TRUE, val |-> v]

Err == [ok |-> FALSE, val |-> <<>>]

Rep(x, n) == [i \in 1..n |-> x]

\* how many copies of x the sequence s starts with
LeadingCount(s, x) == Cardinality({i \in 1..Len(s) : \A j \in 1..i : s[j] = x})

\* Step(...Step(Step(acc, lo), lo + 1)..., hi): the loops of the codecs, split in
\* halves so that the evaluation stays shallow (the test on <<left>> makes
\* TLC compute the left half before it enters the right one)
RECURSIVE FoldRange(_, _, _, _)
FoldRange(Step(_, _), acc, lo, hi) ==
    IF lo > hi THEN acc
    ELSE IF lo = hi THEN Step(acc, lo)
    ELSE LET mid == (lo + hi) \div 2
             left == FoldRange(Step, acc, lo, mid)
         IN  IF Len(<<left>>) = 1 THEN FoldRange(Step, left, mid + 1, hi) ELSE left

(***************************************************************************)
(* Base-58 (the Bitcoin alphabet, as in the base58 and bs58 crates).        *)
(***************************************************************************)
BASE58_ALPHABET ==
    <<"1", "2", "3", "4", "5", "6", "7", "8", "9", "A", "B", "C", "D", "E",
      "F", "G", "H", "J", "K", "L", "M", "N", "P", "Q", "R", "S", "T", "U",
      "V", "W", "X", "Y", "Z", "a", "b", "c", "d", "e", "f", "g", "h", "i",
      "j", "k", "m", "n", "o", "p", "q", "r", "s", "t", "u", "v", "w", "x",
      "y", "z">>

Base58Chars == {BASE58_ALPHABET[i] : i \in 1..Len(BASE58_ALPHABET)}

Base58Digit(c) == (CHOOSE i \in 1..Len(BASE58_ALPHABET) : BASE58_ALPHABET[i] = c) - 1

\* The decoder keeps the number in limbs, least significant first, and does
\* limb * 58 + carry for every limb and every digit.  A limb here is three
\* bytes, so that the products stay within TLC's integers.
Limb == 16777216

MulAdd(acc, m, d) ==
    LET Mul(st, i) == LET t == acc[i] * m + st.carry
                      IN  [carry |-> t \div Limb, out |-> Append(st.out, t % Limb)]
        end == FoldRange(Mul, [carry |-> d, out |-> <<>>], 1, Len(acc))
    IN  IF end.carry = 0 THEN end.out ELSE Append(end.out, end.carry)

\* the limbs of the base-58 number text[from..]
Base58Number(text, from) ==
    LET Digit(acc, i) == MulAdd(acc, 58, Base58Digit(text[i]))
    IN  FoldRange(Digit, <<>>, from, Len(text))

\* the big-endian bytes of a number in limbs, without leading zero bytes
LimbBytes(limbs) ==
    LET n == Len(limbs)
        all == [k \in 1..(3 * n) |->
                  LET l == limbs[n - ((k - 1) \div 3)]
                      pos == (k - 1) % 3
                  IN  IF pos = 0 THEN l \div 65536
                      ELSE IF pos = 1 THEN (l \div 256) % 256 ELSE l % 256]
    IN  SubSeq(all, LeadingCount(all, 0) + 1, 3 * n)

\* a leading "1" is a zero byte; the rest is a big-endian number
Base58Decode(text) ==
    IF \E i \in 1..Len(text) : text[i] \notin Base58Chars THEN Err
    ELSE LET zeros == LeadingCount(text, "1")
         IN  Ok(Rep(0, zeros) \o LimbBytes(Base58Number(text, zeros + 1)))

\* the limbs, least significant first, of a big-endian byte string
BytesLimbs(bytes) ==
    LET n == Len(bytes)
        At(i) == IF i >= 1 THEN bytes[i] ELSE 0
    IN  [k \in 1..((n + 2) \div 3) |->
            At(n - 3 * k + 1) * 65536 + At(n - 3 * k + 2) * 256 + At(n - 3 * k + 3)]

\* a number in limbs divided by 58: the quotient (no leading zero limbs, least
\* significant first) and the remainder
DivMod58(limbs) ==
    LET n == Len(limbs)
        Div(st, i) ==
            LET t == st.rem * Limb + limbs[n + 1 - i]
                qd == t \div 58
            IN  [rem |-> t % 58,
                 quot |-> IF st.quot = <<>> /\ qd = 0 THEN <<>> ELSE <<qd>> \o st.quot]
    IN  FoldRange(Div, [rem |-> 0, quot |-> <<>>], 1, n)

\* the base-58 digits of a number in limbs, most significant first; a number
\* of n limbs has fewer than 5 n digits
Base58Digits(limbs) ==
    LET Round(st, i) ==
            IF st.num = <<>> THEN st
            ELSE LET qr == DivMod58(st.num)
                 IN  [num |-> qr.quot, digits |-> <<BASE58_ALPHABET[qr.rem + 1]>> \o st.digits]
    IN  FoldRange(Round, [num |-> limbs, digits |-> <<>>], 1, 5 * Len(limbs)).digits

Base58Encode(bytes) ==
    LET zeros == LeadingCount(bytes, 0)
    IN  Rep("1", zeros)
            \o Base58Digits(BytesLimbs(SubSeq(bytes, zeros + 1, Len(bytes))))

(***************************************************************************)
(* Base-64: general_purpose::STANDARD, the RFC 4648 alphabet with           *)
(* canonical "=" padding, required when decoding.                           *)
(***************************************************************************)
BASE64_ALPHABET ==
    <<"A", "B", "C", "D", "E", "F", "G", "H", "I", "J", "K", "L", "M", "N",
      "O", "P", "Q", "R", "S", "T", "U", "V", "W", "X", "Y", "Z", "a", "b",
      "c", "d", "e", "f", "g", "h", "i", "j", "k", "l", "m", "n", "o", "p",
      "q", "r", "s", "t", "u", "v", "w", "x", "y", "z", "0", "1", "2", "3",
      "4", "5", "6", "7", "8", "9", "+", "/">>

Base64Chars == {BASE64_ALPHABET[i] : i \in 1..Len(BASE64_ALPHABET)}

Base64Digit(c) == (CHOOSE i \in 1..Len(BASE64_ALPHABET) : BASE64_ALPHABET[i] = c) - 1

\* character k of the encoding: group g of three bytes gives four characters
Base64Encode(bytes) ==
    LET n == Len(bytes)
        At(i) == IF i <= n THEN bytes[i] ELSE 0
        Char(k) ==
            LET g == (k - 1) \div 4
                pos == (k - 1) % 4
                b1 == At(3 * g + 1)
                b2 == At(3 * g + 2)
                b3 == At(3 * g + 3)
            IN  IF pos = 0 THEN BASE64_ALPHABET[(b1 \div 4) + 1]
                ELSE IF pos = 1 THEN BASE64_ALPHABET[((b1 % 4) * 16 + (b2 \div 16)) + 1]
                ELSE IF pos = 2
                THEN IF 3 * g + 2 > n THEN "="
                     ELSE BASE64_ALPHABET[((b2 % 16) * 4 + (b3 \div 64)) + 1]
                ELSE IF 3 * g + 3 > n THEN "=" ELSE BASE64_ALPHABET[(b3 % 64) + 1]
    IN  [k \in 1..(4 * ((n + 2) \div 3)) |-> Char(k)]

Base64Decode(text) ==
    LET n == Len(text)
        pad == IF n >= 2 /\ text[n] = "=" /\ text[n - 1] = "=" THEN 2
               ELSE IF n >= 1 /\ text[n] = "=" THEN 1 ELSE 0
        D(i) == IF i > n - pad THEN 0 ELSE Base64Digit(text[i])
        Byte(j) ==
            LET q == 4 * ((j - 1) \div 3)
                pos == (j - 1) % 3
            IN  IF pos = 0 THEN D(q + 1) * 4 + (D(q + 2) \div 16)
                ELSE IF pos = 1 THEN (D(q + 2) % 16) * 16 + (D(q + 3) \div 4)
                ELSE (D(q + 3) % 4) * 64 + D(q + 4)
    IN  IF n % 4 # 0 THEN Err
        ELSE IF \E i \in 1..(n - pad) : text[i] \notin Base64Chars THEN Err
        \* the bits of the last symbol that encode no byte must be zero
        ELSE IF pad = 2 /\ Base64Digit(text[n - 2]) % 16 # 0 THEN Err
        ELSE IF pad = 1 /\ Base64Digit(text[n - 1]) % 4 # 0 THEN Err
        ELSE Ok([j \in 1..(3 * (n \div 4) - pad) |-> Byte(j)])

(***************************************************************************)
(* Texts as bytes: str::as_bytes on the printable ASCII characters, from    *)
(* the space (32) to the tilde (126); the double quote, the backslash and   *)
(* the backquote are left out (an empty string holds their place).          *)
(***************************************************************************)
ASCII ==
    <<" ", "!", "", "#", "$", "%", "&", "'", "(", ")", "*", "+", ",", "-",
      ".", "/", "0", "1", "2", "3", "4", "5", "6", "7", "8", "9", ":", ";",
      "<", "=", ">", "?", "@", "A", "B", "C", "D", "E", "F", "G", "H", "I",
      "J", "K", "L", "M", "N", "O", "P", "Q", "R", "S", "T", "U", "V", "W",
      "X", "Y", "Z", "[", "", "]", "^", "_", "", "a", "b", "c", "d", "e",
      "f", "g", "h", "i", "j", "k", "l", "m", "n", "o", "p", "q", "r", "s",
      "t", "u", "v", "w", "x", "y", "z", "{", "|", "}", "~">>

as_bytes(text) ==
    [i \in 1..Len(text) |-> 31 + (CHOOSE k \in 1..Len(ASCII) : ASCII[k] = text[i])]

(***************************************************************************)
(* Public keys: solana_sdk::pubkey::Pubkey, 32 bytes, base-58 as text.      *)
(***************************************************************************)
PUBKEY_BYTES == 32

MAX_BASE58_LEN == 44

\* Pubkey::from_str: too long a text, a character outside the alphabet and a
\* decoded length other than 32 are all errors
Pubkey_from_str(text) ==
    IF Len(text) > MAX_BASE58_LEN THEN Err
    ELSE LET decoded == Base58Decode(text)
         IN  IF ~decoded.ok THEN Err
             ELSE IF Len(decoded.val) # PUBKEY_BYTES THEN Err
             ELSE Ok(decoded.val)

\* Pubkey's Display
Pubkey_to_string(pubkey) == Base58Encode(pubkey)

\* base58::FromBase58 for str
from_base58(text) == Base58Decode(text)

\* base58::ToBase58 for [u8]
to_base58(bytes) == Base58Encode(bytes)

(***************************************************************************)
(* The signature scheme.  ed25519 is a Schnorr signature over a group of    *)
(* prime order: a seed gives a scalar a and the public point A = a.B; a     *)
(* signature of M is (R, S) with R = r.B, S = r + H(R, A, M).a; it is        *)
(* valid when S.B = R + H(R, A, M).A.  The model keeps these equations and   *)
(* the wire widths and takes, for the group, the subgroup of order 11 of    *)
(* the integers modulo 23 under multiplication, generated by 2.             *)
(***************************************************************************)
GroupModulus == 23

GroupOrder == 11

GroupBase == 2

SECRET_KEY_LENGTH == 32

KEYPAIR_LENGTH == 64

SIGNATURE_BYTES == 64

\* base^e in the group
RECURSIVE GroupPower(_, _)
GroupPower(base, e) ==
    IF e = 0 THEN 1 ELSE (base * GroupPower(base, e - 1)) % GroupModulus

\* the hash of the scheme, on byte strings
Digest(bytes) ==
    LET Mix(h, i) == (h * 31 + bytes[i] + 1) % 65521
    IN  FoldRange(Mix, 7, 1, Len(bytes))

\* a number below 256 as a 32-byte little-endian string, and back
Encode32(x) == <<x>> \o Rep(0, 31)

\* a point's 32 bytes decompress only to an element of the group
Decompress(bytes) ==
    IF /\ Len(bytes) = 32
       /\ \A i \in 2..32 : bytes[i] = 0
       /\ bytes[1] \in 1..(GroupModulus - 1)
       /\ GroupPower(bytes[1], GroupOrder) = 1
    THEN Ok(bytes[1]) ELSE Err

\* a scalar's 32 bytes are canonical when below the group order
Scalar(bytes) ==
    IF Len(bytes) = 32 /\ (\A i \in 2..32 : bytes[i] = 0) /\ bytes[1] < GroupOrder
    THEN Ok(bytes[1]) ELSE Err

\* the secret scalar of a seed (never zero)
SecretScalar(seed) == 1 + (Digest(seed) % (GroupOrder - 1))

\* PublicKey::from(&SecretKey)
PublicKey_from(seed) == Encode32(GroupPower(GroupBase, SecretScalar(seed)))

\* Whether Keypair::from_bytes also rejects a public half that the seed does
\* not derive is a property of the SDK release the program is built with;
\* `strict` says which release it is.
Keypair_from_bytes(bytes, strict) ==
    IF Len(bytes) # KEYPAIR_LENGTH THEN Err
    ELSE LET secret == SubSeq(bytes, 1, SECRET_KEY_LENGTH)
             public == SubSeq(bytes, SECRET_KEY_LENGTH + 1, KEYPAIR_LENGTH)
         IN  IF ~Decompress(public).ok THEN Err
             ELSE IF strict /\ public # PublicKey_from(secret) THEN Err
             ELSE Ok([secret |-> secret, public |-> public])

\* Keypair::new() with the seed the operating system's generator gives
Keypair_new(seed) == [secret |-> seed, public |-> PublicKey_from(seed)]

Keypair_to_bytes(keypair) == keypair.secret \o keypair.public

Keypair_pubkey(keypair) == keypair.public

\* the challenge H(R, A, M)
Challenge(R, A, message) == Digest(R \o A \o message) % GroupOrder

\* Keypair::sign_message: deterministic, the nonce is a hash of seed and message
sign_message_bytes(keypair, message) ==
    LET a == SecretScalar(keypair.secret)
        r == Digest(keypair.secret \o <<255>> \o message) % GroupOrder
        R == Encode32(GroupPower(GroupBase, r))
        k == Challenge(R, keypair.public, message)
    IN  R \o Encode32((r + k * a) % GroupOrder)

\* Signature::try_from(&[u8]): exactly 64 bytes
Signature_try_from(bytes) ==
    IF Len(bytes) # SIGNATURE_BYTES THEN Err ELSE Ok(bytes)

\* Signature::verify(pubkey_bytes, message_bytes): false for a public key or
\* a signature that does not parse, and for an equation that does not hold
Signature_verify(signature, pubkey, message) ==
    LET A == Decompress(pubkey)
        R == Decompress(SubSeq(signature, 1, 32))
        S == Scalar(SubSeq(signature, 33, 64))
    IN  /\ A.ok /\ R.ok /\ S.ok
        /\ GroupPower(GroupBase, S.val)
             = (R.val * GroupPower(A.val, Challenge(SubSeq(signature, 1, 32), pubkey, message)))
                 % GroupModulus

(***************************************************************************)
(* Instructions: solana_sdk::instruction::{Instruction, AccountMeta}.       *)
(***************************************************************************)
AccountMeta_new(pubkey, is_signer) ==
    [pubkey |-> pubkey, is_signer |-> is_signer, is_writable |-> TRUE]

AccountMeta_new_readonly(pubkey, is_signer) ==
    [pubkey |-> pubkey, is_signer |-> is_signer, is_writable |-> FALSE]

Instruction(program_id, accounts, data) ==
    [program_id |-> program_id, accounts |-> accounts, data |-> data]

\* "11111111111111111111111111111111"
SYSTEM_PROGRAM_ID == Rep(0, 32)

\* "TokenkegQfeZyiNwAJbNbGKPFXCWuBvf9Ss623VQ5DA"
TOKEN_PROGRAM_ID ==
    <<6, 221, 246, 225, 215, 101, 161, 147, 217, 203, 225, 70, 206, 235, 121,
      172, 28, 180, 133, 237, 95, 91, 55, 145, 58, 140, 245, 133, 126, 255, 0,
      169>>

\* "SysvarRent111111111111111111111111111111111"
RENT_SYSVAR_ID ==
    <<6, 167, 213, 23, 25, 44, 92, 81, 33, 140, 201, 76, 61, 74, 241, 127, 88,
      218, 238, 8, 155, 161, 253, 68, 227, 219, 217, 138, 0, 0, 0, 0>>

\* spl_token::check_program_account
check_program_account(program_id) == program_id = TOKEN_PROGRAM_ID

\* COption<Pubkey> in an instruction's data; None is <<>> here
PackOption(pubkey) == IF pubkey = <<>> THEN <<0>> ELSE <<1>> \o pubkey

\* spl_token::instruction::initialize_mint
initialize_mint(token_program_id, mint_pubkey, mint_authority_pubkey, freeze_authority_pubkey, decimals) ==
    IF ~check_program_account(token_program_id) THEN Err
    ELSE Ok(Instruction(token_program_id,
                        <<AccountMeta_new(mint_pubkey, FALSE),
                          AccountMeta_new_readonly(RENT_SYSVAR_ID, FALSE)>>,
                        <<0, decimals>> \o mint_authority_pubkey
                            \o PackOption(freeze_authority_pubkey)))

\* the accounts every multi-signature signer adds
SignerMetas(signer_pubkeys) ==
    [i \in 1..Len(signer_pubkeys) |-> AccountMeta_new_readonly(signer_pubkeys[i], TRUE)]

\* spl_token::instruction::mint_to
mint_to(token_program_id, mint_pubkey, account_pubkey, owner_pubkey, signer_pubkeys, amount) ==
    IF ~check_program_account(token_program_id) THEN Err
    ELSE Ok(Instruction(token_program_id,
                        <<AccountMeta_new(mint_pubkey, FALSE),
                          AccountMeta_new(account_pubkey, FALSE),
                          AccountMeta_new_readonly(owner_pubkey, signer_pubkeys = <<>>)>>
                            \o SignerMetas(signer_pubkeys),
                        <<7>> \o amount))

\* spl_token::instruction::transfer
token_transfer(token_program_id, source_pubkey, destination_pubkey, authority_pubkey, signer_pubkeys, amount) ==
    IF ~check_program_account(token_program_id) THEN Err
    ELSE Ok(Instruction(token_program_id,
                        <<AccountMeta_new(source_pubkey, FALSE),
                          AccountMeta_new(destination_pubkey, FALSE),
                          AccountMeta_new_readonly(authority_pubkey, signer_pubkeys = <<>>)>>
                            \o SignerMetas(signer_pubkeys),
                        <<3>> \o amount))

\* solana_sdk::system_instruction::transfer: SystemInstruction::Transfer is
\* variant 2, written as a little-endian u32 before the lamports
system_transfer(from_pubkey, to_pubkey, lamports) ==
    Instruction(SYSTEM_PROGRAM_ID,
                <<AccountMeta_new(from_pubkey, TRUE), AccountMeta_new(to_pubkey, FALSE)>>,
                <<2, 0, 0, 0>> \o lamports)

(***************************************************************************)
(* The response envelope and the JSON values of its data.                   *)
(***************************************************************************)
\* a JSON string
JString(text) == [json |-> "string", text |-> text]

\* Pubkey derives Serialize over its [u8; 32]: a JSON array of 32 numbers
JBytes(bytes) == [json |-> "array", items |-> bytes]

\* AccountMeta derives Serialize: its three fields, the pubkey as Pubkey does
AccountMetaJson(meta) ==
    [pubkey |-> JBytes(meta.pubkey), is_signer |-> meta.is_signer,
     is_writable |-> meta.is_writable]

SuccessResponse(data) == [success |-> TRUE, data |-> data]

\* (a changed `error`: the flag copied from SuccessResponse)
error_success_true(msg) == [success |-> TRUE, error |-> msg]

error(msg) == [success |-> FALSE, error |-> msg]

NoResponse == [pending |-> TRUE]

NoRequest == [route |-> "none"]

NoLocals == <<>>

(***************************************************************************)
(* The handlers, one statement at a time.  pc names the local the next      *)
(* statement binds; local holds the locals bound so far.                    *)
(***************************************************************************)
\* let name = result.map_err(|_| error(msg))?;
Try(l, name, result, msg, next) ==
    IF result.ok
    THEN [pc |-> next, local |-> l @@ (name :> result.val), resp |-> NoResponse]
    ELSE [pc |-> "done", local |-> l, resp |-> error(msg)]

\* let name = value;
Let(l, name, value, next) ==
    [pc |-> next, local |-> l @@ (name :> value), resp |-> NoResponse]

\* Ok(Json(SuccessResponse { success: true, data }))
Respond(l, data) == [pc |-> "done", local |-> l, resp |-> SuccessResponse(data)]

\* the data of create_token, mint_token and send_token
InstructionJson(ix) ==
    [program_id |-> JString(Pubkey_to_string(ix.program_id)),
     accounts |-> [i \in 1..Len(ix.accounts) |-> AccountMetaJson(ix.accounts[i])],
     instruction_data |-> JString(Base64Encode(ix.data))]

generate_keypair(p, l, seed) ==
    CASE p = "keypair" -> Let(l, "keypair", Keypair_new(seed), "respond")
      [] p = "respond" ->
            Respond(l, [pubkey |-> JString(Pubkey_to_string(Keypair_pubkey(l.keypair))),
                        secret |-> JString(to_base58(Keypair_to_bytes(l.keypair)))])

\* (a changed create_token: the authority is parsed before the mint)
create_token_authority_first(p, r, l) ==
    CASE p = "mint" ->
            Try(l, "mint_authority", Pubkey_from_str(r.mint_authority),
                "Invalid mint authority pubkey", "mint_authority")
      [] p = "mint_authority" ->
            Try(l, "mint", Pubkey_from_str(r.mint), "Invalid mint pubkey", "ix")
      [] p = "ix" ->
            Try(l, "ix",
                initialize_mint(TOKEN_PROGRAM_ID, l.mint, l.mint_authority, <<>>, r.decimals),
                "Failed to create initialize_mint instruction", "respond")
      [] p = "respond" -> Respond(l, InstructionJson(l.ix))

create_token(p, r, l) ==
    CASE p = "mint" ->
            Try(l, "mint", Pubkey_from_str(r.mint), "Invalid mint pubkey", "mint_authority")
      [] p = "mint_authority" ->
            Try(l, "mint_authority", Pubkey_from_str(r.mint_authority),
                "Invalid mint authority pubkey", "ix")
      [] p = "ix" ->
            Try(l, "ix",
                initialize_mint(TOKEN_PROGRAM_ID, l.mint, l.mint_authority, <<>>, r.decimals),
                "Failed to create initialize_mint instruction", "respond")
      [] p = "respond" -> Respond(l, InstructionJson(l.ix))

\* (a changed mint_token: destination and mint change places in the call)
mint_token_swapped(p, r, l) ==
    CASE p = "mint" ->
            Try(l, "mint", Pubkey_from_str(r.mint), "Invalid mint pubkey", "dest")
      [] p = "dest" ->
            Try(l, "dest", Pubkey_from_str(r.destination), "Invalid destination pubkey",
                "auth")
      [] p = "auth" ->
            Try(l, "auth", Pubkey_from_str(r.authority), "Invalid authority pubkey", "ix")
      [] p = "ix" ->
            Try(l, "ix", mint_to(TOKEN_PROGRAM_ID, l.dest, l.mint, l.auth, <<>>, r.amount),
                "Failed to create mint_to instruction", "respond")
      [] p = "respond" -> Respond(l, InstructionJson(l.ix))

mint_token(p, r, l) ==
    CASE p = "mint" ->
            Try(l, "mint", Pubkey_from_str(r.mint), "Invalid mint pubkey", "dest")
      [] p = "dest" ->
            Try(l, "dest", Pubkey_from_str(r.destination), "Invalid destination pubkey",
                "auth")
      [] p = "auth" ->
            Try(l, "auth", Pubkey_from_str(r.authority), "Invalid authority pubkey", "ix")
      [] p = "ix" ->
            Try(l, "ix", mint_to(TOKEN_PROGRAM_ID, l.mint, l.dest, l.auth, <<>>, r.amount),
                "Failed to create mint_to instruction", "respond")
      [] p = "respond" -> Respond(l, InstructionJson(l.ix))

\* (a changed sign_message: the signature leaves in base-58, as the keys do)
sign_message_base58_signature(p, r, l, strict) ==
    CASE p = "secret_bytes" ->
            Try(l, "secret_bytes", from_base58(r.secret), "Invalid secret format", "keypair")
      [] p = "keypair" ->
            Try(l, "keypair", Keypair_from_bytes(l.secret_bytes, strict),
                "Invalid secret key", "signature")
      [] p = "signature" ->
            Let(l, "signature", sign_message_bytes(l.keypair, as_bytes(r.message)),
                "respond")
      [] p = "respond" ->
            Respond(l, [signature |-> JString(to_base58(l.signature)),
                        public_key |-> JString(Pubkey_to_string(Keypair_pubkey(l.keypair))),
                        message |-> JString(r.message)])

sign_message(p, r, l, strict) ==
    CASE p = "secret_bytes" ->
            Try(l, "secret_bytes", from_base58(r.secret), "Invalid secret format", "keypair")
      [] p = "keypair" ->
            Try(l, "keypair", Keypair_from_bytes(l.secret_bytes, strict),
                "Invalid secret key", "signature")
      [] p = "signature" ->
            Let(l, "signature", sign_message_bytes(l.keypair, as_bytes(r.message)),
                "respond")
      [] p = "respond" ->
            Respond(l, [signature |-> JString(Base64Encode(l.signature)),
                        public_key |-> JString(Pubkey_to_string(Keypair_pubkey(l.keypair))),
                        message |-> JString(r.message)])

\* (a changed verify_message: a signature of the wrong length is reported as
\* a signature that does not verify)
verify_message_wrong_length_invalid(p, r, l) ==
    CASE p = "pubkey" ->
            Try(l, "pubkey", Pubkey_from_str(r.pubkey), "Invalid pubkey format",
                "signature_bytes")
      [] p = "signature_bytes" ->
            Try(l, "signature_bytes", Base64Decode(r.signature), "Invalid base64 signature",
                "signature")
      [] p = "signature" ->
            IF Signature_try_from(l.signature_bytes).ok
            THEN Let(l, "signature", l.signature_bytes, "valid")
            ELSE Let(l, "valid", FALSE, "respond")
      [] p = "valid" ->
            Let(l, "valid", Signature_verify(l.signature, l.pubkey, as_bytes(r.message)),
                "respond")
      [] p = "respond" ->
            Respond(l, [valid |-> l.valid, message |-> JString(r.message),
                        pubkey |-> JString(r.pubkey)])

verify_message(p, r, l) ==
    CASE p = "pubkey" ->
            Try(l, "pubkey", Pubkey_from_str(r.pubkey), "Invalid pubkey format",
                "signature_bytes")
      [] p = "signature_bytes" ->
            Try(l, "signature_bytes", Base64Decode(r.signature), "Invalid base64 signature",
                "signature")
      [] p = "signature" ->
            Try(l, "signature", Signature_try_from(l.signature_bytes),
                "Invalid signature format", "valid")
      [] p = "valid" ->
            Let(l, "valid", Signature_verify(l.signature, l.pubkey, as_bytes(r.message)),
                "respond")
      [] p = "respond" ->
            Respond(l, [valid |-> l.valid, message |-> JString(r.message),
                        pubkey |-> JString(r.pubkey)])

\* (a changed send_sol: sender and receiver change places in the call)
send_sol_swapped(p, r, l) ==
    CASE p = "from" ->
            Try(l, "from", Pubkey_from_str(r.from), "Invalid sender pubkey", "to")
      [] p = "to" ->
            Try(l, "to", Pubkey_from_str(r.to), "Invalid recipient pubkey", "ix")
      [] p = "ix" -> Let(l, "ix", system_transfer(l.to, l.from, r.lamports), "respond")
      [] p = "respond" ->
            Respond(l, [program_id |-> JString(Pubkey_to_string(l.ix.program_id)),
                        accounts |-> [i \in 1..Len(l.ix.accounts) |->
                                         JString(Pubkey_to_string(l.ix.accounts[i].pubkey))],
                        instruction_data |-> JString(Base64Encode(l.ix.data))])

\* (a changed send_sol: no lamports is an error, as in the draft the file
\* keeps in comments)
send_sol_rejects_zero(p, r, l) ==
    CASE p = "from" ->
            IF r.lamports = Rep(0, 8)
            THEN [pc |-> "done", local |-> l, resp |-> error("Invalid lamports amount")]
            ELSE Try(l, "from", Pubkey_from_str(r.from), "Invalid sender pubkey", "to")
      [] p = "to" ->
            Try(l, "to", Pubkey_from_str(r.to), "Invalid recipient pubkey", "ix")
      [] p = "ix" -> Let(l, "ix", system_transfer(l.from, l.to, r.lamports), "respond")
      [] p = "respond" ->
            Respond(l, [program_id |-> JString(Pubkey_to_string(l.ix.program_id)),
                        accounts |-> [i \in 1..Len(l.ix.accounts) |->
                                         JString(Pubkey_to_string(l.ix.accounts[i].pubkey))],
                        instruction_data |-> JString(Base64Encode(l.ix.data))])

send_sol(p, r, l) ==
    CASE p = "from" ->
            Try(l, "from", Pubkey_from_str(r.from), "Invalid sender pubkey", "to")
      [] p = "to" ->
            Try(l, "to", Pubkey_from_str(r.to), "Invalid recipient pubkey", "ix")
      [] p = "ix" -> Let(l, "ix", system_transfer(l.from, l.to, r.lamports), "respond")
      [] p = "respond" ->
            Respond(l, [program_id |-> JString(Pubkey_to_string(l.ix.program_id)),
                        accounts |-> [i \in 1..Len(l.ix.accounts) |->
                                         JString(Pubkey_to_string(l.ix.accounts[i].pubkey))],
                        instruction_data |-> JString(Base64Encode(l.ix.data))])

\* (a changed send_token: the destination is passed as the source and the
\* mint as the destination)
send_token_swapped(p, r, l) ==
    CASE p = "dest" ->
            Try(l, "dest", Pubkey_from_str(r.destination), "Invalid destination pubkey",
                "mint")
      [] p = "mint" ->
            Try(l, "mint", Pubkey_from_str(r.mint), "Invalid mint pubkey", "owner")
      [] p = "owner" ->
            Try(l, "owner", Pubkey_from_str(r.owner), "Invalid owner pubkey", "ix")
      [] p = "ix" ->
            Try(l, "ix",
                token_transfer(TOKEN_PROGRAM_ID, l.dest, l.mint, l.owner, <<>>, r.amount),
                "Failed to create transfer instruction", "respond")
      [] p = "respond" -> Respond(l, InstructionJson(l.ix))

send_token(p, r, l) ==
    CASE p = "dest" ->
            Try(l, "dest", Pubkey_from_str(r.destination), "Invalid destination pubkey",
                "mint")
      [] p = "mint" ->
            Try(l, "mint", Pubkey_from_str(r.mint), "Invalid mint pubkey", "owner")
      [] p = "owner" ->
            Try(l, "owner", Pubkey_from_str(r.owner), "Invalid owner pubkey", "ix")
      [] p = "ix" ->
            Try(l, "ix",
                token_transfer(TOKEN_PROGRAM_ID, l.mint, l.dest, l.owner, <<>>, r.amount),
                "Failed to create transfer instruction", "respond")
      [] p = "respond" -> Respond(l, InstructionJson(l.ix))

\* the first statement of the handler the router gives a route to
FirstStep(route) ==
    CASE route = "/keypair" -> "keypair"
      [] route = "/token/create" -> "mint"
      [] route = "/token/mint" -> "mint"
      [] route = "/message/sign" -> "secret_bytes"
      [] route = "/message/verify" -> "pubkey"
      [] route = "/send/sol" -> "from"
      [] route = "/send/token" -> "dest"

(***************************************************************************)
(* The requests the clients send.                                           *)
(***************************************************************************)
\* how many seeds the generator of the operating system draws from
NumSeeds == 2

\* how many requests the server handles at once
MaxConc == 2

Slots == 1..MaxConc

Seed(k) == Encode32(k)

Seeds == {Seed(k) : k \in 1..NumSeeds}

\* the system program's address, and the two addresses after it
K_SYSTEM == Rep("1", 32)

K_ONE == Rep("1", 31) \o <<"2">>

K_TWO == Rep("1", 31) \o <<"3">>

\* "0" is no base-58 character; 31 and 45 characters are 31 and 45 bytes
BadCharKey == Rep("1", 31) \o <<"0">>

ShortKey == Rep("1", 31)

LongKey == Rep("1", 45)

PubkeyTexts == {K_SYSTEM, K_ONE, K_TWO, BadCharKey, ShortKey, LongKey}

\* a u64 is its eight little-endian bytes: 0, 1000 and u64::MAX
Amounts == {Rep(0, 8), <<232, 3, 0, 0, 0, 0, 0, 0>>, Rep(255, 8)}

\* a u8
Decimals == {0, 9, 255}

Messages == {<<>>, <<"h", "i">>}

\* secrets: a generated keypair's; one whose public half is another seed's;
\* one whose public half is no point; 32 bytes only; no base-58 text
SecretTexts ==
    {to_base58(Keypair_to_bytes(Keypair_new(seed))) : seed \in Seeds}
        \cup {to_base58(Seed(1) \o PublicKey_from(Seed(2))),
              to_base58(Seed(1) \o Rep(0, 32)),
              to_base58(Seed(1)),
              <<"0", "O">>}

\* a signature of "hi" under the first seed
GoodSignature == sign_message_bytes(Keypair_new(Seed(1)), as_bytes(<<"h", "i">>))

\* signatures: a good one; the same with one bit of S flipped; the same
\* without its last byte (63 bytes); no base-64 text; base-64 without padding
SignatureTexts ==
    {Base64Encode(GoodSignature),
     Base64Encode([GoodSignature EXCEPT ![33] = IF @ % 2 = 0 THEN @ + 1 ELSE @ - 1]),
     Base64Encode(SubSeq(GoodSignature, 1, 63)),
     <<"!", "A", "A", "A">>,
     <<"Q", "U", "I">>}

VerifyKeyTexts ==
    {Pubkey_to_string(PublicKey_from(Seed(1))), K_SYSTEM, BadCharKey, ShortKey}

KeypairRequests == {[route |-> "/keypair"]}

CreateTokenRequests ==
    {[route |-> "/token/create", mint_authority |-> a, mint |-> m, decimals |-> d] :
        a \in PubkeyTexts, m \in PubkeyTexts, d \in Decimals}

MintTokenRequests ==
    {[route |-> "/token/mint", mint |-> m, destination |-> d, authority |-> a, amount |-> n] :
        m \in PubkeyTexts, d \in PubkeyTexts, a \in PubkeyTexts, n \in Amounts}

SignMessageRequests ==
    {[route |-> "/message/sign", message |-> m, secret |-> k] :
        m \in Messages, k \in SecretTexts}

\* signed_with is no field of VerifyMessageReq: it records, for a request built
\* from a response of /message/sign, the secret that request was signed with
VerifyMessageRequests ==
    {[route |-> "/message/verify", message |-> m, signature |-> g, pubkey |-> k,
      signed_with |-> <<>>] :
        m \in Messages, g \in SignatureTexts, k \in VerifyKeyTexts}

SendSolRequests ==
    {[route |-> "/send/sol", from |-> f, to |-> t, lamports |-> n] :
        f \in PubkeyTexts, t \in PubkeyTexts, n \in Amounts}

SendTokenRequests ==
    {[route |-> "/send/token", destination |-> d, mint |-> m, owner |-> o, amount |-> n] :
        d \in PubkeyTexts, m \in PubkeyTexts, o \in PubkeyTexts, n \in Amounts}

Requests ==
    KeypairRequests \cup CreateTokenRequests \cup MintTokenRequests
        \cup SignMessageRequests \cup VerifyMessageRequests \cup SendSolRequests
        \cup SendTokenRequests

(***************************************************************************)
(* The server.  Every request in flight has a slot: its handler's position  *)
(* (pc), the request, the handler's locals and the response.                *)
(***************************************************************************)
VARIABLES app_state, strictKeypair, pc, req, local, resp

vars == <<app_state, strictKeypair, pc, req, local, resp>>

\* struct AppState; (no field)
AppState == "AppState"

Init ==
    /\ app_state = AppState
    /\ strictKeypair \in BOOLEAN
    /\ pc = [s \in Slots |-> "idle"]
    /\ req = [s \in Slots |-> NoRequest]
    /\ local = [s \in Slots |-> NoLocals]
    /\ resp = [s \in Slots |-> NoResponse]

Running(s, route) == req[s].route = route /\ pc[s] \notin {"idle", "done"}

\* (a changed Advance: one response buffer for all the requests in flight)
Advance_shared(s, f) ==
    /\ pc' = [pc EXCEPT ![s] = f.pc]
    /\ local' = [local EXCEPT ![s] = f.local]
    /\ resp' = [t \in Slots |-> f.resp]
    /\ UNCHANGED <<app_state, strictKeypair, req>>

\* a statement of the handler of slot s has run, with outcome f
Advance(s, f) ==
    /\ pc' = [pc EXCEPT ![s] = f.pc]
    /\ local' = [local EXCEPT ![s] = f.local]
    /\ resp' = [resp EXCEPT ![s] = f.resp]
    /\ UNCHANGED <<app_state, strictKeypair, req>>

\* the router hands the request r to its handler
Receive(s, r) ==
    /\ pc[s] = "idle"
    /\ pc' = [pc EXCEPT ![s] = FirstStep(r.route)]
    /\ req' = [req EXCEPT ![s] = r]
    /\ local' = [local EXCEPT ![s] = NoLocals]
    /\ resp' = [resp EXCEPT ![s] = NoResponse]
    /\ UNCHANGED <<app_state, strictKeypair>>

\* Keypair::new() draws its seed when it runs, and only then
GenerateKeypair(s) ==
    /\ Running(s, "/keypair")
    /\ \E seed \in IF pc[s] = "keypair" THEN Seeds ELSE {<<>>} :
           Advance(s, generate_keypair(pc[s], local[s], seed))

CreateToken(s) ==
    /\ Running(s, "/token/create")
    /\ Advance(s, create_token(pc[s], req[s], local[s]))

MintToken(s) ==
    /\ Running(s, "/token/mint")
    /\ Advance(s, mint_token(pc[s], req[s], local[s]))

SignMessage(s) ==
    /\ Running(s, "/message/sign")
    /\ Advance(s, sign_message(pc[s], req[s], local[s], strictKeypair))

VerifyMessage(s) ==
    /\ Running(s, "/message/verify")
    /\ Advance(s, verify_message(pc[s], req[s], local[s]))

SendSol(s) ==
    /\ Running(s, "/send/sol")
    /\ Advance(s, send_sol(pc[s], req[s], local[s]))

SendToken(s) ==
    /\ Running(s, "/send/token")
    /\ Advance(s, send_token(pc[s], req[s], local[s]))

\* the response is written out and everything of the request is dropped
Deliver(s) ==
    /\ pc[s] = "done"
    /\ pc' = [pc EXCEPT ![s] = "idle"]
    /\ req' = [req EXCEPT ![s] = NoRequest]
    /\ local' = [local EXCEPT ![s] = NoLocals]
    /\ resp' = [resp EXCEPT ![s] = NoResponse]
    /\ UNCHANGED <<app_state, strictKeypair>>

\* the client of a signed message sends what /message/sign returned to
\* /message/verify
VerifySigned(s) ==
    /\ pc[s] = "done"
    /\ req[s].route = "/message/sign"
    /\ resp[s].success
    /\ pc' = [pc EXCEPT ![s] = FirstStep("/message/verify")]
    /\ req' = [req EXCEPT ![s] = [route |-> "/message/verify",
                                  message |-> resp[s].data.message.text,
                                  signature |-> resp[s].data.signature.text,
                                  pubkey |-> resp[s].data.public_key.text,
                                  signed_with |-> req[s].secret]]
    /\ local' = [local EXCEPT ![s] = NoLocals]
    /\ resp' = [resp EXCEPT ![s] = NoResponse]
    /\ UNCHANGED <<app_state, strictKeypair>>

Handle(s) ==
    \/ GenerateKeypair(s)
    \/ CreateToken(s)
    \/ MintToken(s)
    \/ SignMessage(s)
    \/ VerifyMessage(s)
    \/ SendSol(s)
    \/ SendToken(s)
    \/ Deliver(s)
    \/ VerifySigned(s)

\* one request at a time, of every kind
Next ==
    \/ \E r \in Requests : Receive(1, r)
    \/ Handle(1)

Spec == Init /\ [][Next]_vars

(***************************************************************************)
(* Requests handled at once.  Each slot runs its handler statement by       *)
(* statement, in any interleaving with the other slots.                     *)
(***************************************************************************)
\* the first seed's keypair as a client holds it, in base-58
FirstSecretText ==
    <<"2", "A", "F", "v", "1", "5", "M", "N", "P", "u", "A", "8", "4", "R",
      "m", "U", "6", "6", "x", "w", "2", "u", "M", "z", "G", "i", "p", "c",
      "V", "x", "N", "p", "z", "A", "f", "f", "o", "a", "c", "G", "V", "v",
      "j", "G", "3", "S", "r", "V", "B", "D", "p", "s", "i", "3", "5", "y",
      "u", "9", "f", "Q", "A", "9", "q", "7", "z", "g", "W", "W", "4", "K",
      "r", "8", "A", "t", "E", "b", "z", "M", "5", "g", "2", "r", "b", "b",
      "h", "j", "D">>

ConcRequests ==
    {[route |-> "/keypair"],
     [route |-> "/token/create", mint_authority |-> K_ONE, mint |-> BadCharKey,
      decimals |-> 9],
     [route |-> "/token/mint", mint |-> ShortKey, destination |-> K_ONE,
      authority |-> K_SYSTEM, amount |-> Rep(0, 8)],
     [route |-> "/message/sign", message |-> <<"h", "i">>, secret |-> FirstSecretText],
     [route |-> "/message/verify", message |-> <<"h", "i">>, signature |-> <<"Q", "U", "I">>,
      pubkey |-> LongKey, signed_with |-> <<>>],
     [route |-> "/send/sol", from |-> K_SYSTEM, to |-> K_ONE, lamports |-> Rep(255, 8)],
     [route |-> "/send/token", destination |-> BadCharKey, mint |-> K_ONE,
      owner |-> K_SYSTEM, amount |-> Rep(0, 8)]}

ConcHandle(s) ==
    \/ GenerateKeypair(s)
    \/ CreateToken(s)
    \/ MintToken(s)
    \/ SignMessage(s)
    \/ VerifyMessage(s)
    \/ SendSol(s)
    \/ SendToken(s)
    \/ Deliver(s)

ConcNext ==
    \E s \in Slots :
        \/ \E r \in ConcRequests : Receive(s, r)
        \/ ConcHandle(s)

ConcSpec == Init /\ [][ConcNext]_vars

(***************************************************************************)
(* What the handlers check, in the order of their statements.               *)
(***************************************************************************)
\* the locals a handler binds, in the order of its statements
Statements(route) ==
    CASE route = "/keypair" -> <<"keypair">>
      [] route = "/token/create" -> <<"mint", "mint_authority", "ix">>
      [] route = "/token/mint" -> <<"mint", "dest", "auth", "ix">>
      [] route = "/message/sign" -> <<"secret_bytes", "keypair", "signature">>
      [] route = "/message/verify" -> <<"pubkey", "signature_bytes", "signature", "valid">>
      [] route = "/send/sol" -> <<"from", "to", "ix">>
      [] route = "/send/token" -> <<"dest", "mint", "owner", "ix">>

Parses(text) == Pubkey_from_str(text).ok

Check(fails, msg) == [fails |-> fails, msg |-> msg]

\* the checks on a request's fields, in the order of the handler's statements,
\* each with the message of its failure
Checks(r, strict) ==
    CASE r.route = "/keypair" -> <<>>
      [] r.route = "/token/create" ->
            <<Check(~Parses(r.mint), "Invalid mint pubkey"),
              Check(~Parses(r.mint_authority), "Invalid mint authority pubkey")>>
      [] r.route = "/token/mint" ->
            <<Check(~Parses(r.mint), "Invalid mint pubkey"),
              Check(~Parses(r.destination), "Invalid destination pubkey"),
              Check(~Parses(r.authority), "Invalid authority pubkey")>>
      [] r.route = "/message/sign" ->
            <<Check(~from_base58(r.secret).ok, "Invalid secret format"),
              Check(~Keypair_from_bytes(from_base58(r.secret).val, strict).ok,
                    "Invalid secret key")>>
      [] r.route = "/message/verify" ->
            <<Check(~Parses(r.pubkey), "Invalid pubkey format"),
              Check(~Base64Decode(r.signature).ok, "Invalid base64 signature"),
              Check(Len(Base64Decode(r.signature).val) # SIGNATURE_BYTES,
                    "Invalid signature format")>>
      [] r.route = "/send/sol" ->
            <<Check(~Parses(r.from), "Invalid sender pubkey"),
              Check(~Parses(r.to), "Invalid recipient pubkey")>>
      [] r.route = "/send/token" ->
            <<Check(~Parses(r.destination), "Invalid destination pubkey"),
              Check(~Parses(r.mint), "Invalid mint pubkey"),
              Check(~Parses(r.owner), "Invalid owner pubkey")>>

AnyFails(checks) == \E i \in 1..Len(checks) : checks[i].fails

\* the message of the first check that fails
FirstFailure(checks) ==
    LET first == CHOOSE i \in 1..Len(checks) :
                     checks[i].fails /\ \A j \in 1..(i - 1) : ~checks[j].fails
    IN  checks[first].msg

Done(s, route) == pc[s] = "done" /\ req[s].route = route

IsSuccess(e) == DOMAIN e = {"success", "data"} /\ e.success = TRUE

IsError(e) == DOMAIN e = {"success", "error"} /\ e.success = FALSE

\* an entry of an accounts list: its address, and whether it carries the flags
Address(e) == IF "pubkey" \in DOMAIN e THEN e.pubkey ELSE e

IsBase58Of(j, bytes) ==
    /\ DOMAIN j = {"json", "text"}
    /\ j.json = "string"
    /\ Base58Decode(j.text) = Ok(bytes)

IsBase64Of(j, bytes) ==
    /\ DOMAIN j = {"json", "text"}
    /\ j.json = "string"
    /\ Base64Decode(j.text) = Ok(bytes)

HasFlags(e, is_signer, is_writable) ==
    /\ "is_signer" \in DOMAIN e
    /\ "is_writable" \in DOMAIN e
    /\ e.is_signer = is_signer
    /\ e.is_writable = is_writable

(***************************************************************************)
(* C1: /message/verify answers a pubkey that does not parse, a signature    *)
(* that is not base-64 and a signature that does not decode to 64 bytes     *)
(* with an Error envelope, never with a Success envelope saying valid =     *)
(* false, and never attempts the verification.                              *)
(***************************************************************************)
Malformed(r) ==
    \/ ~Parses(r.pubkey)
    \/ ~Base64Decode(r.signature).ok
    \/ Len(Base64Decode(r.signature).val) # SIGNATURE_BYTES

C1_MalformedVerifyIsError ==
    \A s \in Slots :
        (req[s].route = "/message/verify" /\ Malformed(req[s]))
            => /\ "valid" \notin DOMAIN local[s]
               /\ pc[s] = "done" => IsError(resp[s])

C1_Witness ==
    \E s \in Slots :
        /\ Done(s, "/message/verify")
        /\ Parses(req[s].pubkey)
        /\ Base64Decode(req[s].signature).ok
        /\ Len(Base64Decode(req[s].signature).val) = 63
        /\ resp[s] = error("Invalid signature format")

(***************************************************************************)
(* C2, as claimed: the accounts list of a /send/sol success envelope has    *)
(* exactly 2 entries, [sender, receiver], the first carrying signer = true  *)
(* and writable = true, the second signer = false and writable = true.      *)
(***************************************************************************)
C2_EnvelopeCarriesFlags ==
    \A s \in Slots :
        (Done(s, "/send/sol") /\ resp[s].success)
            => LET accounts == resp[s].data.accounts
               IN  /\ Len(accounts) = 2
                   /\ IsBase58Of(Address(accounts[1]), Pubkey_from_str(req[s].from).val)
                   /\ IsBase58Of(Address(accounts[2]), Pubkey_from_str(req[s].to).val)
                   /\ HasFlags(accounts[1], TRUE, TRUE)
                   /\ HasFlags(accounts[2], FALSE, TRUE)

(***************************************************************************)
(* C2, amended: the accounts list of a /send/sol success envelope has       *)
(* exactly 2 entries, the sender's and the receiver's address in this       *)
(* order, each a bare base-58 string without flags; signer = true,          *)
(* writable = true and signer = false, writable = true are the flags of     *)
(* the two accounts of the instruction the handler built.                   *)
(***************************************************************************)
C2_BareAddressesInOrder ==
    \A s \in Slots :
        (Done(s, "/send/sol") /\ Parses(req[s].from) /\ Parses(req[s].to))
            => /\ IsSuccess(resp[s])
               /\ LET accounts == resp[s].data.accounts
                      metas == local[s].ix.accounts
                  IN  /\ Len(accounts) = 2
                      /\ IsBase58Of(accounts[1], Pubkey_from_str(req[s].from).val)
                      /\ IsBase58Of(accounts[2], Pubkey_from_str(req[s].to).val)
                      /\ Len(metas) = 2
                      /\ metas[1] = [pubkey |-> Pubkey_from_str(req[s].from).val,
                                     is_signer |-> TRUE, is_writable |-> TRUE]
                      /\ metas[2] = [pubkey |-> Pubkey_from_str(req[s].to).val,
                                     is_signer |-> FALSE, is_writable |-> TRUE]

C2_Witness ==
    \E s \in Slots :
        /\ Done(s, "/send/sol")
        /\ req[s].from = K_SYSTEM
        /\ req[s].to = K_ONE
        /\ req[s].lamports = <<232, 3, 0, 0, 0, 0, 0, 0>>
        /\ resp[s].success
        /\ resp[s].data.accounts = <<JString(K_SYSTEM), JString(K_ONE)>>

(***************************************************************************)
(* C3: every handler ends in exactly one envelope, Success (success =       *)
(* true, data, no error) or Error (success = false, error, no data); no     *)
(* envelope exists before the handler ends; once a step fails no later      *)
(* step runs: an Error comes with the locals of the statements before the   *)
(* failing one and no others, a Success with all of them and no failing     *)
(* check.                                                                   *)
(***************************************************************************)
\* the locals of the first k statements
Bound(route, k) == {Statements(route)[i] : i \in 1..k}

C3_OneEnvelope ==
    \A s \in Slots :
        LET n == Len(Statements(req[s].route))
        IN  /\ pc[s] = "idle" => resp[s] = NoResponse /\ local[s] = NoLocals
            /\ pc[s] \notin {"idle", "done"}
                 => /\ resp[s] = NoResponse
                    /\ \E k \in 0..n : DOMAIN local[s] = Bound(req[s].route, k)
            /\ pc[s] = "done"
                 => \/ /\ IsSuccess(resp[s])
                       /\ DOMAIN local[s] = Bound(req[s].route, n)
                       /\ ~AnyFails(Checks(req[s], strictKeypair))
                    \/ /\ IsError(resp[s])
                       /\ \E k \in 0..(n - 1) : DOMAIN local[s] = Bound(req[s].route, k)
                       /\ AnyFails(Checks(req[s], strictKeypair))

C3_Witness ==
    \E s \in Slots :
        /\ Done(s, "/token/create")
        /\ IsError(resp[s])
        /\ DOMAIN local[s] = {"mint"}

(***************************************************************************)
(* C4: the signature and public_key of a successful /message/sign under a   *)
(* valid 64-byte secret key (64 bytes whose public half is the one the      *)
(* seed derives), sent with the same message to /message/verify, give a     *)
(* Success envelope with valid = true.                                      *)
(***************************************************************************)
ValidSecretKey(text) ==
    LET bytes == from_base58(text)
    IN  /\ bytes.ok
        /\ Len(bytes.val) = KEYPAIR_LENGTH
        /\ SubSeq(bytes.val, SECRET_KEY_LENGTH + 1, KEYPAIR_LENGTH)
             = PublicKey_from(SubSeq(bytes.val, 1, SECRET_KEY_LENGTH))

C4_SignThenVerify ==
    \A s \in Slots :
        (Done(s, "/message/verify") /\ req[s].signed_with # <<>>
            /\ ValidSecretKey(req[s].signed_with))
            => IsSuccess(resp[s]) /\ resp[s].data.valid = TRUE

C4_Witness ==
    \E s \in Slots :
        /\ Done(s, "/message/verify")
        /\ req[s].signed_with # <<>>
        /\ ValidSecretKey(req[s].signed_with)
        /\ req[s].message = <<"h", "i">>
        /\ resp[s].success
        /\ resp[s].data.valid

(***************************************************************************)
(* C5, as claimed: in every success envelope every field of key material    *)
(* (pubkey, secret, public_key, program_id, the address of every entry of   *)
(* accounts) is base-58 text and instruction_data is base-64 text.          *)
(***************************************************************************)
IsBase58Text(j) ==
    /\ DOMAIN j = {"json", "text"}
    /\ j.json = "string"
    /\ Base58Decode(j.text).ok
    /\ Len(Base58Decode(j.text).val) \in {PUBKEY_BYTES, KEYPAIR_LENGTH}

InstructionRoutes == {"/token/create", "/token/mint", "/send/sol", "/send/token"}

C5_KeysBase58PayloadBase64 ==
    \A s \in Slots :
        (pc[s] = "done" /\ resp[s].success)
            => LET data == resp[s].data
               IN  /\ req[s].route = "/keypair"
                        => IsBase58Text(data.pubkey) /\ IsBase58Text(data.secret)
                   /\ req[s].route = "/message/sign" => IsBase58Text(data.public_key)
                   /\ req[s].route = "/message/verify" => IsBase58Text(data.pubkey)
                   /\ req[s].route \in InstructionRoutes
                        => /\ IsBase58Of(data.program_id, local[s].ix.program_id)
                           /\ IsBase64Of(data.instruction_data, local[s].ix.data)
                           /\ \A i \in 1..Len(data.accounts) :
                                  IsBase58Text(Address(data.accounts[i]))

(***************************************************************************)
(* C6: on /token/mint, /send/sol and /send/token the amount never decides   *)
(* between success and error: a request succeeds exactly when its address   *)
(* fields all parse, for every u64 amount, 0 included.                      *)
(***************************************************************************)
AmountRoutes == {"/token/mint", "/send/sol", "/send/token"}

AmountOf(r) == IF r.route = "/send/sol" THEN r.lamports ELSE r.amount

C6_AmountNeverDecides ==
    \A s \in Slots :
        (pc[s] = "done" /\ req[s].route \in AmountRoutes)
            => (IsSuccess(resp[s]) <=> ~AnyFails(Checks(req[s], strictKeypair)))

C6_Witness ==
    \E s \in Slots :
        /\ Done(s, "/send/token")
        /\ AmountOf(req[s]) = Rep(0, 8)
        /\ IsSuccess(resp[s])

(***************************************************************************)
(* C7: requests are independent.  The response to a request is a function   *)
(* of that request alone (/keypair apart, whose keys are drawn anew):        *)
(* whatever the other requests in flight do, it is the response the          *)
(* handler gives when it runs alone; and no state is shared: the            *)
(* application state is never written.                                       *)
(***************************************************************************)
\* Router::new().route(..): the handler of the request's route
Router(p, r, l, strict) ==
    CASE r.route = "/token/create" -> create_token(p, r, l)
      [] r.route = "/token/mint" -> mint_token(p, r, l)
      [] r.route = "/message/sign" -> sign_message(p, r, l, strict)
      [] r.route = "/message/verify" -> verify_message(p, r, l)
      [] r.route = "/send/sol" -> send_sol(p, r, l)
      [] r.route = "/send/token" -> send_token(p, r, l)

RECURSIVE RunFrom(_, _, _, _)
RunFrom(p, r, l, strict) ==
    LET f == Router(p, r, l, strict)
    IN  IF f.pc = "done" THEN f.resp ELSE RunFrom(f.pc, r, f.local, strict)

\* the response of the handler run from its first statement to its last with
\* nothing else in flight
RunAlone(r, strict) == RunFrom(FirstStep(r.route), r, NoLocals, strict)

C7_RequestsIndependent ==
    /\ app_state = AppState
    /\ \A s \in Slots :
           /\ pc[s] \notin {"idle", "done"} => resp[s] = NoResponse
           /\ (pc[s] = "done" /\ req[s].route # "/keypair")
                => resp[s] = RunAlone(req[s], strictKeypair)
           /\ Done(s, "/keypair")
                => IsSuccess(resp[s]) /\ local[s].keypair \in {Keypair_new(seed) : seed \in Seeds}

C7_Witness ==
    \E s \in Slots, t \in Slots :
        /\ s # t
        /\ Done(s, "/send/sol")
        /\ IsSuccess(resp[s])
        /\ req[t].route = "/message/sign"
        /\ pc[t] = "signature"

(***************************************************************************)
(* C8: for every /token/mint request whose mint, destination and authority  *)
(* all parse, the instruction has exactly 3 accounts, [mint (writable, not   *)
(* a signer), destination (writable, not a signer), authority (signer)],     *)
(* and no multi-signature account after them.                                *)
(***************************************************************************)
C8_MintToAccounts ==
    \A s \in Slots :
        (Done(s, "/token/mint") /\ Parses(req[s].mint) /\ Parses(req[s].destination)
            /\ Parses(req[s].authority))
            => /\ IsSuccess(resp[s])
               /\ LET metas == local[s].ix.accounts
                      accounts == resp[s].data.accounts
                  IN  /\ Len(metas) = 3
                      /\ metas[1] = [pubkey |-> Pubkey_from_str(req[s].mint).val,
                                     is_signer |-> FALSE, is_writable |-> TRUE]
                      /\ metas[2] = [pubkey |-> Pubkey_from_str(req[s].destination).val,
                                     is_signer |-> FALSE, is_writable |-> TRUE]
                      /\ metas[3].pubkey = Pubkey_from_str(req[s].authority).val
                      /\ metas[3].is_signer = TRUE
                      /\ Len(accounts) = 3
                      /\ \A i \in 1..3 :
                             HasFlags(accounts[i], metas[i].is_signer, metas[i].is_writable)

C8_Witness ==
    \E s \in Slots :
        /\ Done(s, "/token/mint")
        /\ req[s].mint = K_ONE
        /\ req[s].destination = K_TWO
        /\ req[s].authority = K_SYSTEM
        /\ IsSuccess(resp[s])
        /\ Len(resp[s].data.accounts) = 3

(***************************************************************************)
(* C9, as claimed: for every /send/token request whose destination, mint    *)
(* and owner all parse, every address of the account list is one of the     *)
(* addresses the caller supplied, the list starts with the destination       *)
(* marked writable, and the owner comes after it as the signer.              *)
(***************************************************************************)
Supplied(r) ==
    {Pubkey_from_str(r.destination).val, Pubkey_from_str(r.mint).val,
     Pubkey_from_str(r.owner).val}

C9_DestinationFirst ==
    \A s \in Slots :
        (Done(s, "/send/token") /\ Parses(req[s].destination) /\ Parses(req[s].mint)
            /\ Parses(req[s].owner))
            => /\ IsSuccess(resp[s])
               /\ LET metas == local[s].ix.accounts
                  IN  /\ \A i \in 1..Len(metas) : metas[i].pubkey \in Supplied(req[s])
                      /\ metas[1].pubkey = Pubkey_from_str(req[s].destination).val
                      /\ metas[1].is_writable
                      /\ \E i \in 2..Len(metas) :
                             /\ metas[i].pubkey = Pubkey_from_str(req[s].owner).val
                             /\ metas[i].is_signer

(***************************************************************************)
(* C9, amended: for every /send/token request whose destination, mint and   *)
(* owner all parse, every address of the account list is one of the         *)
(* addresses the caller supplied (none is derived), the list starts with     *)
(* the mint marked writable, the destination follows it marked writable,     *)
(* and the owner comes last as the signer.                                   *)
(***************************************************************************)
C9_MintFirst ==
    \A s \in Slots :
        (Done(s, "/send/token") /\ Parses(req[s].destination) /\ Parses(req[s].mint)
            /\ Parses(req[s].owner))
            => /\ IsSuccess(resp[s])
               /\ LET metas == local[s].ix.accounts
                      accounts == resp[s].data.accounts
                  IN  /\ Len(metas) = 3
                      /\ \A i \in 1..3 : metas[i].pubkey \in Supplied(req[s])
                      /\ metas[1].pubkey = Pubkey_from_str(req[s].mint).val
                      /\ metas[1].is_writable
                      /\ metas[2].pubkey = Pubkey_from_str(req[s].destination).val
                      /\ metas[2].is_writable
                      /\ metas[3].pubkey = Pubkey_from_str(req[s].owner).val
                      /\ metas[3].is_signer
                      /\ ~metas[1].is_signer /\ ~metas[2].is_signer
                      /\ Len(accounts) = 3
                      /\ \A i \in 1..3 :
                             HasFlags(accounts[i], metas[i].is_signer, metas[i].is_writable)

C9_Witness ==
    \E s \in Slots :
        /\ Done(s, "/send/token")
        /\ req[s].destination = K_ONE
        /\ req[s].mint = K_TWO
        /\ req[s].owner = K_SYSTEM
        /\ IsSuccess(resp[s])
        /\ local[s].ix.accounts[1].pubkey = Pubkey_from_str(K_TWO).val

(***************************************************************************)
(* C10: every handler checks its fields in a fixed order and reports the    *)
(* first failure only: the response is the Error envelope with the message  *)
(* of the first check that fails, and a Success envelope when none fails.    *)
(***************************************************************************)
C10_FirstFailureReported ==
    \A s \in Slots :
        pc[s] = "done"
            => LET checks == Checks(req[s], strictKeypair)
               IN  IF AnyFails(checks)
                   THEN resp[s] = error(FirstFailure(checks))
                   ELSE IsSuccess(resp[s])

C10_Witness ==
    \E s \in Slots :
        /\ Done(s, "/token/create")
        /\ ~Parses(req[s].mint)
        /\ ~Parses(req[s].mint_authority)
        /\ resp[s] = error("Invalid mint pubkey")

=============================================================================
